---- MODULE Spec2Model ----
(***************************************************************************)
(* Model of the RabbitMQ topology custom-resource handler                  *)
(* (infra/BomExtractionLambdaCdk/lambda/rabbitmq-topology/index.py).       *)
(*                                                                         *)
(* One invocation of on_event is a run of the handler from "idle" to       *)
(* "done".  The broker and the transport (urllib) are the environment:     *)
(* the broker keeps the topology it was given, the transport delivers each *)
(* answer as a normal response, as an HTTPError or as a timeout.           *)
(*                                                                         *)
(* Python dicts are records whose DOMAIN holds exactly the keys present;   *)
(* strings that are split or encoded (entity names, paths) are sequences   *)
(* of tokens; dict-valued fields (arguments, definition) are sets of       *)
(* <<key, value>> pairs.                                                    *)
(***************************************************************************)
EXTENDS Integers, Sequences, FiniteSets, TLC

VARIABLES
    pc,          \* "idle" | "apply" | "waiting" | "done": position in on_event
    event,       \* the event of the current invocation: RequestType, ResourceProperties
    secret,      \* the SecretString payload the secret store holds (a dict)
    topology,    \* json.loads(props["Topology"]) of the current invocation
    auth,        \* <<username, password>> carried by the Authorization header
    kind,        \* which of the four loops is running: 1..4, 5 = past the loops
    idx,         \* index of the loop's current entity in its list
    counts,      \* the counts dict
    calls,       \* the requests urlopen was given in this invocation, in order
    lastResp,    \* what the transport did with the last request
    apiRet,      \* what api() did for the last request: returned a status, or raised
    returned,    \* the dict on_event returned (Nothing while it has not)
    raised,      \* the exception that left on_event ("" while none has)
    broker,      \* the topology the broker holds
    invocations, \* number of invocations started
    physIds,     \* PhysicalResourceIds returned by successful Create/Update so far
    prev,        \* summary of the previous invocation and the broker around it
    trace        \* what the transport answered in this invocation, when recorded

vars == <<pc, event, secret, topology, auth, kind, idx, counts, calls, lastResp,
          apiRet, returned, raised, broker, invocations, physIds, prev, trace>>

----------------------------------------------------------------------------
(* Bounds of the model *)

\* longest list of one kind in a topology document
MaxLen == 2
\* most entities in a topology document, over the four kinds
MaxEntities == 3
\* most invocations of on_event in one behaviour
MaxInvocations == 2
\* longest entity name, in characters
MaxNameLen == 2

----------------------------------------------------------------------------
(* Python values *)

\* dict.get(k, default)
Get(d, k, default) == IF k \in DOMAIN d THEN d[k] ELSE default

\* None, as dict.get(k) returns it for a string-valued key
NoneVal == "<None>"

\* a or b, on strings and None
Or(a, b) == IF a # NoneVal /\ a # "" THEN a ELSE b

\* not a
Falsy(a) == a = NoneVal \/ a = ""

Nothing == [nothing |-> TRUE]

RECURSIVE Str(_)
\* str(n) for n >= 0: the decimal digits
Str(n) ==
    LET digit(d) == CASE d = 0 -> "0" [] d = 1 -> "1" [] d = 2 -> "2" [] d = 3 -> "3"
                      [] d = 4 -> "4" [] d = 5 -> "5" [] d = 6 -> "6" [] d = 7 -> "7"
                      [] d = 8 -> "8" [] d = 9 -> "9"
    IN  IF n < 10 THEN <<digit(n)>> ELSE Str(n \div 10) \o <<digit(n % 10)>>

\* the characters urllib.parse.quote never escapes
Unreserved == {"a", "b", "e", "p", "q", "x", ".", "-", "_", "~"}

\* percent-encoding that leaves "/" as it is (quote's default safe="/")
QuoteCharSlashSafe(c) ==
    IF c \in Unreserved \cup {"/"} THEN <<c>>
    ELSE CASE c = " " -> <<"%20">>
           [] c = "é" -> <<"%C3", "%A9">>
           [] c = "%" -> <<"%25">>

\* percent-encoding of one character's UTF-8 bytes
QuoteChar(c) ==
    IF c \in Unreserved THEN <<c>>
    ELSE CASE c = "/" -> <<"%2F">>
           [] c = " " -> <<"%20">>
           [] c = "é" -> <<"%C3", "%A9">>
           [] c = "%" -> <<"%25">>

RECURSIVE Quote(_)
\* urllib.parse.quote(s, safe="")
Quote(s) == IF s = <<>> THEN <<>> ELSE QuoteChar(Head(s)) \o Quote(Tail(s))

----------------------------------------------------------------------------
(* The handler's constants *)

physical_id == "rabbitmq-topology-v1"

vhost == "%2F"

\* the statuses api() accepts from the HTTPError channel
OkCodes == {200, 201, 204}

KindNames == <<"exchanges", "queues", "bindings", "policies">>

ZeroCounts == [exchanges |-> 0, queues |-> 0, bindings |-> 0, policies |-> 0]

----------------------------------------------------------------------------
(* Requests: one per entity, built as the four loops build them *)

\* the keys each loop reads with d[k], which raises KeyError when absent
RequiredKeys(k) ==
    CASE k = 1 -> {"name"}
      [] k = 2 -> {"name"}
      [] k = 3 -> {"source", "destination"}
      [] k = 4 -> {"name", "pattern", "definition"}

\* an exchange loop that removes the exchange
ExchangeRequestDelete(ex) ==
    [method |-> "DELETE",
     path   |-> <<"/", "exchanges", "/", vhost, "/">> \o Quote(ex.name),
     body   |-> [type        |-> Get(ex, "type", "direct"),
                 durable     |-> Get(ex, "durable", TRUE),
                 auto_delete |-> Get(ex, "auto_delete", FALSE),
                 arguments   |-> Get(ex, "arguments", {})]]

\* lines 87-96
ExchangeRequest(ex) ==
    [method |-> "PUT",
     path   |-> <<"/", "exchanges", "/", vhost, "/">> \o Quote(ex.name),
     body   |-> [type        |-> Get(ex, "type", "direct"),
                 durable     |-> Get(ex, "durable", TRUE),
                 auto_delete |-> Get(ex, "auto_delete", FALSE),
                 arguments   |-> Get(ex, "arguments", {})]]

QueueRequest(q) ==
    [method |-> "PUT",
     path   |-> <<"/", "queues", "/", vhost, "/">> \o Quote(q.name),
     body   |-> [durable     |-> Get(q, "durable", TRUE),
                 auto_delete |-> Get(q, "auto_delete", FALSE),
                 arguments   |-> Get(q, "arguments", {})]]

BindingRequest(b) ==
    [method |-> "POST",
     path   |-> <<"/", "bindings", "/", vhost, "/", "e", "/">> \o Quote(b.source)
                    \o <<"/", "q", "/">> \o Quote(b.destination),
     body   |-> [routing_key |-> Get(b, "routing_key", ""),
                 arguments   |-> Get(b, "arguments", {})]]

PolicyBodyKeys == {"pattern", "definition", "apply-to", "priority"}

\* a policy loop that reads apply-to from the key the body gives it
PolicyRequestHyphenKey(p) ==
    [method |-> "PUT",
     path   |-> <<"/", "policies", "/", vhost, "/">> \o Quote(p.name),
     body   |-> [f \in PolicyBodyKeys |->
                    CASE f = "pattern"    -> p.pattern
                      [] f = "definition" -> p.definition
                      [] f = "apply-to"   -> Get(p, "apply-to", "queues")
                      [] f = "priority"   -> Get(p, "priority", 0)]]

\* lines 122-131
PolicyRequest(p) ==
    [method |-> "PUT",
     path   |-> <<"/", "policies", "/", vhost, "/">> \o Quote(p.name),
     body   |-> [f \in PolicyBodyKeys |->
                    CASE f = "pattern"    -> p.pattern
                      [] f = "definition" -> p.definition
                      [] f = "apply-to"   -> Get(p, "apply_to", "queues")
                      [] f = "priority"   -> Get(p, "priority", 0)]]

\* the (method, path, body) the k-th loop hands to api() for entity e
Request(k, e) ==
    CASE k = 1 -> ExchangeRequest(e)
      [] k = 2 -> QueueRequest(e)
      [] k = 3 -> BindingRequest(e)
      [] k = 4 -> PolicyRequest(e)

\* topology.get(kind, [])
List(doc, k) == Get(doc, KindNames[k], <<>>)

\* the first loop at or after the k-th whose list is not empty; 5 when there is none
RECURSIVE NextKind(_, _)
NextKind(doc, k) ==
    IF k > 4 THEN 5
    ELSE IF Len(List(doc, k)) > 0 THEN k ELSE NextKind(doc, k + 1)

----------------------------------------------------------------------------
(* The broker: what the module docstring says of the management API *)

\* path.split("/"): the segments of a path (the first is empty when the path
\* starts with "/")
RECURSIVE Segments(_)
Segments(path) ==
    IF path = <<>> THEN <<<<>>>>
    ELSE LET rest == Segments(Tail(path))
         IN  IF Head(path) = "/" THEN <<<<>>>> \o rest
             ELSE <<<<Head(path)>> \o Head(rest)>> \o Tail(rest)

\* percent-decoding of a segment, as the broker reads a name from a path
RECURSIVE Unquote(_)
Unquote(seg) ==
    IF seg = <<>> THEN <<>>
    ELSE IF Head(seg) = "%2F" THEN <<"/">> \o Unquote(Tail(seg))
    ELSE IF Head(seg) = "%20" THEN <<" ">> \o Unquote(Tail(seg))
    ELSE IF Head(seg) = "%25" THEN <<"%">> \o Unquote(Tail(seg))
    ELSE IF Head(seg) = "%C3" /\ Len(seg) > 1 /\ seg[2] = "%A9"
         THEN <<"é">> \o Unquote(Tail(Tail(seg)))
    ELSE <<Head(seg)>> \o Unquote(Tail(seg))

EmptyBroker == [exchanges |-> {}, queues |-> {}, bindings |-> {}, policies |-> {}]

\* the entity a request addresses, as the broker reads it off method, path and body
Addressed(req) ==
    LET segs == Segments(req.path)
        what == IF Len(segs) > 1 THEN segs[2] ELSE <<>>
    IN  IF Len(segs) = 4 /\ segs[3] = <<vhost>> /\ req.method = "PUT"
           /\ what \in {<<"exchanges">>, <<"queues">>, <<"policies">>}
        THEN [coll |-> what[1], name |-> Unquote(segs[4]), cfg |-> req.body]
        ELSE IF Len(segs) = 7 /\ segs[3] = <<vhost>> /\ req.method = "POST"
                /\ what = <<"bindings">> /\ segs[4] = <<"e">> /\ segs[6] = <<"q">>
        THEN [coll |-> "bindings",
              name |-> <<Unquote(segs[5]), Unquote(segs[7])>>, cfg |-> req.body]
        ELSE [coll |-> "none", name |-> <<>>, cfg |-> req.body]

\* whether the broker can do what the request asks: an exchange or queue that
\* exists with another configuration is refused; a binding or a policy never is
BrokerCanApply(b, req) ==
    LET a == Addressed(req)
    IN  CASE a.coll \in {"exchanges", "queues"} ->
               \A x \in b[a.coll] : x.name = a.name => x.cfg = a.cfg
          [] a.coll \in {"bindings", "policies"} -> TRUE
          [] OTHER -> FALSE

\* a broker that keeps every policy it was ever given
BrokerApplyKeeping(b, req) ==
    LET a == Addressed(req)
    IN  IF a.coll = "none" THEN b
        ELSE [b EXCEPT ![a.coll] = @ \cup {[name |-> a.name, cfg |-> a.cfg]}]

\* the broker after the request: PUT exchange/queue adds or is a no-op, POST
\* binding adds to a set (so an identical tuple is one binding), PUT policy overwrites
BrokerApply(b, req) ==
    LET a == Addressed(req)
        e == [name |-> a.name, cfg |-> a.cfg]
    IN  CASE a.coll \in {"exchanges", "queues", "bindings"} ->
               [b EXCEPT ![a.coll] = @ \cup {e}]
          [] a.coll = "policies" ->
               [b EXCEPT !.policies = {x \in @ : x.name # a.name} \cup {e}]
          [] OTHER -> b

\* statuses the broker answers with when it has done the request
AppliedStatuses == {200, 201, 202, 204}

\* statuses the broker answers with when it has refused the request
RefusedStatuses == {409}

----------------------------------------------------------------------------
(* Inputs *)

NameA == <<"a">>
NameB == <<"a", "/", "b">>

ExchangeCands ==
    {[name |-> NameA, type |-> "topic"], [name |-> NameB], [type |-> "fanout"]}

QueueCands ==
    {[name |-> NameA, arguments |-> {<<"x-queue-type", "quorum">>}],
     [name |-> NameB, durable |-> FALSE], [durable |-> TRUE]}

BindingCands ==
    {[source |-> NameA, destination |-> NameA, routing_key |-> "k.*"],
     [source |-> NameB, destination |-> NameA], [source |-> NameA]}

PolicyCands ==
    {[name |-> NameA, pattern |-> ".*", definition |-> {<<"ha-mode", "all">>},
      priority |-> 1],
     [name |-> NameA, pattern |-> ".*", definition |-> {<<"ha-mode", "all">>}],
     [name |-> NameB, pattern |-> "^q"]}

Cands(k) ==
    CASE k = 1 -> ExchangeCands [] k = 2 -> QueueCands
      [] k = 3 -> BindingCands  [] k = 4 -> PolicyCands

\* the lists of at most MaxLen entities of kind k
Lists(k) == UNION {[1..n -> Cands(k)] : n \in 0..MaxLen}

\* a topology document: the kinds with no entity are absent keys
DocOf(f) == [n \in {KindNames[k] : k \in {j \in 1..4 : f[j] # <<>>}} |->
                f[CHOOSE k \in 1..4 : KindNames[k] = n]]

Docs ==
    {DocOf(<<a, b, c, d>>) :
        <<a, b, c, d>> \in
            {t \in Lists(1) \X Lists(2) \X Lists(3) \X Lists(4) :
                Len(t[1]) + Len(t[2]) + Len(t[3]) + Len(t[4]) <= MaxEntities}}
    \cup {[exchanges |-> <<>>, queues |-> <<>>, bindings |-> <<>>, policies |-> <<>>]}

\* the text of a topology document, and a text that is no JSON
Serialized(doc) == [text |-> "json", value |-> doc]

NotJson == [text |-> "not json"]

PropsOf(doc) ==
    [SecretArn |-> "arn:secret", BrokerHost |-> "mq.example", Topology |-> Serialized(doc)]

\* properties with none of the keys the handler reads with props[key]
BareProps == [Region |-> "us-east-2"]

PropsSet ==
    {PropsOf(d) : d \in Docs}
    \cup {[SecretArn |-> "arn:secret", BrokerHost |-> "mq.example", Topology |-> NotJson],
          BareProps}

SecretSet ==
    {[username |-> "u", password |-> "p"],
     [Username |-> "u", Password |-> "p"],
     [username |-> "u"]}

RequestTypes == {"Create", "Update", "Delete"}

----------------------------------------------------------------------------
(* State *)

NoEvent == [RequestType |-> "", ResourceProperties |-> [Region |-> ""]]

NoResp == [channel |-> "none", status |-> 0]

NoRet == [raised |-> FALSE, status |-> 0]

NoPrev(b) ==
    [exists |-> FALSE, props |-> NoEvent.ResourceProperties, deleted |-> FALSE,
     returned |-> Nothing, raised |-> "", calls |-> <<>>, brokerStart |-> b,
     brokerNow |-> b]

\* the record of the transport's answers: kept only in behaviours that compare
\* two invocations; first is the invocation before this one
NoFirst == [RequestType |-> "", secret |-> [username |-> ""], responses |-> <<>>]

NoTrace == [recording |-> FALSE, responses |-> <<>>, first |-> NoFirst]

InitWith(b) ==
    /\ pc = "idle"
    /\ event = NoEvent
    /\ secret = [username |-> "u", password |-> "p"]
    /\ topology = Nothing
    /\ auth = <<"", "">>
    /\ kind = 5
    /\ idx = 1
    /\ counts = ZeroCounts
    /\ calls = <<>>
    /\ lastResp = NoResp
    /\ apiRet = NoRet
    /\ returned = Nothing
    /\ raised = ""
    /\ broker = b
    /\ invocations = 0
    /\ physIds = {}
    /\ prev = NoPrev(b)
    /\ trace \in {NoTrace, [NoTrace EXCEPT !.recording = TRUE]}

----------------------------------------------------------------------------
(* on_event, up to the loops *)

\* json.loads(text)
JsonLoadsOk(t) == t.text = "json"

\* the exception lines 41-55 raise for these properties and this secret ("" if none)
SetupError(props, sec) ==
    LET username == Or(Get(sec, "username", NoneVal), Get(sec, "Username", NoneVal))
        password == Or(Get(sec, "password", NoneVal), Get(sec, "Password", NoneVal))
    IN  IF ~({"SecretArn", "BrokerHost", "Topology"} \subseteq DOMAIN props)
        THEN "KeyError"
        ELSE IF ~JsonLoadsOk(props.Topology) THEN "JSONDecodeError"
        ELSE IF Falsy(username) \/ Falsy(password) THEN "ValueError"
        ELSE ""

\* credentials read from the lower-case keys alone
CredentialsLowerOnly(sec) ==
    <<Get(sec, "username", NoneVal), Get(sec, "password", NoneVal)>>

\* the credentials lines 49-50 extract
Credentials(sec) ==
    <<Or(Get(sec, "username", NoneVal), Get(sec, "Username", NoneVal)),
      Or(Get(sec, "password", NoneVal), Get(sec, "Password", NoneVal))>>

\* the trace once the transport has answered with r
Recorded(r) ==
    IF trace.recording THEN [trace EXCEPT !.responses = Append(@, r)] ELSE trace

\* the trace at the entry of an invocation
Entered ==
    IF trace.recording
    THEN [recording |-> TRUE, responses |-> <<>>,
          first |-> [RequestType |-> event.RequestType, secret |-> secret,
                     responses |-> trace.responses]]
    ELSE trace

\* what every invocation does on entry: a fresh frame
\* the handler is not running, and the behaviour may hold another invocation
CanEnter(limit) == pc \in {"idle", "done"} /\ invocations < limit

Enter(rt, props, sec, limit) ==
    /\ CanEnter(limit)
    /\ invocations' = invocations + 1
    /\ event' = [RequestType |-> rt, ResourceProperties |-> props]
    /\ secret' = sec
    /\ calls' = <<>>
    /\ lastResp' = NoResp
    /\ apiRet' = NoRet
    /\ prev' = [exists |-> invocations > 0, props |-> event.ResourceProperties,
                deleted |-> event.RequestType = "Delete", returned |-> returned,
                raised |-> raised, calls |-> calls, brokerStart |-> prev.brokerNow,
                brokerNow |-> broker]
    /\ trace' = Entered
    /\ UNCHANGED <<broker, physIds>>

\* a Delete answering with an identity of its own
DeleteResultOther == [PhysicalResourceId |-> "rabbitmq-topology-deleted"]

\* lines 35-37
DeleteResult == [PhysicalResourceId |-> physical_id]

\* a Delete that is told apart only after lines 40-55
HandleDeleteAfterSetup(props, sec, limit) ==
    /\ Enter("Delete", props, sec, limit)
    /\ returned' = IF SetupError(props, sec) = "" THEN DeleteResult ELSE Nothing
    /\ raised' = SetupError(props, sec)
    /\ pc' = "done"
    /\ topology' = Nothing
    /\ auth' = <<"", "">>
    /\ kind' = 5
    /\ idx' = 1
    /\ counts' = ZeroCounts

\* lines 35-37: the Delete branch, taken before anything of props is read
HandleDelete(props, sec, limit) ==
    /\ Enter("Delete", props, sec, limit)
    /\ returned' = DeleteResult
    /\ raised' = ""
    /\ pc' = "done"
    /\ topology' = Nothing
    /\ auth' = <<"", "">>
    /\ kind' = 5
    /\ idx' = 1
    /\ counts' = ZeroCounts

\* counts as a pass written with a counts dict that outlives the invocation
\* would start it
StaleCounts == counts

\* line 84: every pass starts its counts at zero
FreshCounts == ZeroCounts

\* an Update that takes the topology for applied and goes past the loops
BeginProvisionCreateOnly(rt, props, sec, limit) ==
    /\ rt # "Delete"
    /\ Enter(rt, props, sec, limit)
    /\ returned' = Nothing
    /\ raised' = SetupError(props, sec)
    /\ counts' = FreshCounts
    /\ idx' = 1
    /\ IF SetupError(props, sec) = ""
       THEN /\ topology' = props.Topology.value
            /\ auth' = Credentials(sec)
            /\ kind' = IF rt = "Update" THEN 5 ELSE NextKind(props.Topology.value, 1)
            /\ pc' = "apply"
       ELSE /\ topology' = Nothing
            /\ auth' = <<"", "">>
            /\ kind' = 5
            /\ pc' = "done"

\* lines 39-84: read the properties, parse the topology, fetch the credentials
BeginProvision(rt, props, sec, limit) ==
    /\ rt # "Delete"
    /\ Enter(rt, props, sec, limit)
    /\ returned' = Nothing
    /\ raised' = SetupError(props, sec)
    /\ counts' = FreshCounts
    /\ idx' = 1
    /\ IF SetupError(props, sec) = ""
       THEN /\ topology' = props.Topology.value
            /\ auth' = Credentials(sec)
            /\ kind' = NextKind(props.Topology.value, 1)
            /\ pc' = "apply"
       ELSE /\ topology' = Nothing
            /\ auth' = <<"", "">>
            /\ kind' = 5
            /\ pc' = "done"

----------------------------------------------------------------------------
(* on_event, the four loops (lines 86-131) and the return (lines 133-138) *)

\* the entity a loop over reversed(list) would be at
CurrentReversed == List(topology, kind)[Len(List(topology, kind)) + 1 - idx]

\* the entity the running loop is at
Current == List(topology, kind)[idx]

\* api(): the request urlopen is given (lines 64-70)
ApiRequest(k, e) ==
    [method |-> Request(k, e).method,
     host   |-> event.ResourceProperties.BrokerHost,
     path   |-> Request(k, e).path,
     body   |-> Request(k, e).body,
     auth   |-> auth]

\* the loop reads a key the entity does not have: KeyError leaves on_event
EntityKeyError ==
    /\ pc = "apply"
    /\ kind <= 4
    /\ ~(RequiredKeys(kind) \subseteq DOMAIN Current)
    /\ raised' = "KeyError"
    /\ pc' = "done"
    /\ lastResp' = NoResp
    /\ apiRet' = NoRet
    /\ UNCHANGED <<event, secret, topology, auth, kind, idx, counts, calls, returned,
                   broker, invocations, physIds, prev, trace>>

\* a loop that hands the request over and goes on without waiting for its end
IssueCallUnawaited ==
    /\ pc = "apply"
    /\ kind <= 4
    /\ RequiredKeys(kind) \subseteq DOMAIN Current
    /\ calls' = Append(calls, ApiRequest(kind, Current))
    /\ IF idx < Len(List(topology, kind))
       THEN idx' = idx + 1 /\ kind' = kind
       ELSE idx' = 1 /\ kind' = NextKind(topology, kind + 1)
    /\ pc' = "apply"
    /\ lastResp' = NoResp
    /\ apiRet' = NoRet
    /\ UNCHANGED <<event, secret, topology, auth, counts, returned, raised,
                   broker, invocations, physIds, prev, trace>>

\* the loop builds the request of its entity and api() hands it to urlopen
IssueCall ==
    /\ pc = "apply"
    /\ kind <= 4
    /\ RequiredKeys(kind) \subseteq DOMAIN Current
    /\ calls' = Append(calls, ApiRequest(kind, Current))
    /\ pc' = "waiting"
    /\ lastResp' = NoResp
    /\ apiRet' = NoRet
    /\ UNCHANGED <<event, secret, topology, auth, kind, idx, counts, returned, raised,
                   broker, invocations, physIds, prev, trace>>

\* counts["exchanges"] += 1 in every loop
IncrementedFirst(c, k) == [c EXCEPT !.exchanges = @ + 1]

\* counts[kind] += 1
Incremented(c, k) == [c EXCEPT ![KindNames[k]] = @ + 1]

\* a loop without its counts[...] += 1
ContinueUncounted(status) ==
    /\ apiRet' = [raised |-> FALSE, status |-> status]
    /\ IF idx < Len(List(topology, kind))
       THEN idx' = idx + 1 /\ kind' = kind
       ELSE idx' = 1 /\ kind' = NextKind(topology, kind + 1)
    /\ pc' = "apply"
    /\ UNCHANGED <<counts, returned, raised>>

\* api() returned: count the entity and move to the next one
Continue(status) ==
    /\ apiRet' = [raised |-> FALSE, status |-> status]
    /\ counts' = Incremented(counts, kind)
    /\ IF idx < Len(List(topology, kind))
       THEN idx' = idx + 1 /\ kind' = kind
       ELSE idx' = 1 /\ kind' = NextKind(topology, kind + 1)
    /\ pc' = "apply"
    /\ UNCHANGED <<returned, raised>>

\* the exception swallowed and the loop going on
AbortSwallowed(exc) ==
    /\ apiRet' = [raised |-> FALSE, status |-> 0]
    /\ IF idx < Len(List(topology, kind))
       THEN idx' = idx + 1 /\ kind' = kind
       ELSE idx' = 1 /\ kind' = NextKind(topology, kind + 1)
    /\ pc' = "apply"
    /\ UNCHANGED <<counts, returned, raised>>

\* api() raised: the exception leaves on_event
Abort(exc) ==
    /\ apiRet' = [raised |-> TRUE, status |-> 0]
    /\ raised' = exc
    /\ pc' = "done"
    /\ UNCHANGED <<counts, kind, idx, returned>>

\* lines 70-73: urlopen returns a response, api() returns its status
OnResponse(status) == Continue(status)

\* every HTTPError re-raised, whatever its code
OnHTTPErrorRaise(code) == Abort("HTTPError")

\* lines 74-81: urlopen raises HTTPError, api() returns the code or re-raises
OnHTTPError(code) == IF code \in OkCodes THEN Continue(code) ELSE Abort("HTTPError")

Last(seq) == seq[Len(seq)]

\* the broker did the request and its answer arrives as a normal response
\* (urlopen returns only 2xx answers; any other status it raises as HTTPError)
RespondNormal(status) ==
    /\ pc = "waiting"
    /\ status \in AppliedStatuses
    /\ BrokerCanApply(broker, Last(calls))
    /\ broker' = BrokerApply(broker, Last(calls))
    /\ lastResp' = [channel |-> "normal", status |-> status]
    /\ trace' = Recorded([channel |-> "normal", status |-> status])
    /\ OnResponse(status)
    /\ UNCHANGED <<event, secret, topology, auth, calls, invocations, physIds, prev>>

\* the broker did the request and its answer arrives as an HTTPError
RespondAppliedAsError(status) ==
    /\ pc = "waiting"
    /\ status \in AppliedStatuses
    /\ BrokerCanApply(broker, Last(calls))
    /\ broker' = BrokerApply(broker, Last(calls))
    /\ lastResp' = [channel |-> "httperror", status |-> status]
    /\ trace' = Recorded([channel |-> "httperror", status |-> status])
    /\ OnHTTPError(status)
    /\ UNCHANGED <<event, secret, topology, auth, calls, invocations, physIds, prev>>

\* the broker refused the request: the status arrives as an HTTPError
RespondRefused(status) ==
    /\ pc = "waiting"
    /\ status \in RefusedStatuses
    /\ broker' = broker
    /\ lastResp' = [channel |-> "httperror", status |-> status]
    /\ trace' = Recorded([channel |-> "httperror", status |-> status])
    /\ OnHTTPError(status)
    /\ UNCHANGED <<event, secret, topology, auth, calls, invocations, physIds, prev>>

\* a transport layer that sends the request again when no answer came
RespondTimeoutRetried(applied) ==
    /\ pc = "waiting"
    /\ applied => BrokerCanApply(broker, Last(calls))
    /\ broker' = IF applied THEN BrokerApply(broker, Last(calls)) ELSE broker
    /\ lastResp' = [channel |-> "timeout", status |-> 0]
    /\ trace' = Recorded([channel |-> "timeout", status |-> 0])
    /\ calls' = Append(calls, Last(calls))
    /\ apiRet' = NoRet
    /\ UNCHANGED <<pc, event, secret, topology, auth, kind, idx, counts, returned,
                   raised, invocations, physIds, prev>>

\* no answer within the timeout (line 70): URLError is not an HTTPError and
\* leaves api(); the broker may or may not have done the request
RespondTimeout(applied) ==
    /\ pc = "waiting"
    /\ applied => BrokerCanApply(broker, Last(calls))
    /\ broker' = IF applied THEN BrokerApply(broker, Last(calls)) ELSE broker
    /\ lastResp' = [channel |-> "timeout", status |-> 0]
    /\ trace' = Recorded([channel |-> "timeout", status |-> 0])
    /\ Abort("URLError")
    /\ UNCHANGED <<event, secret, topology, auth, calls, invocations, physIds, prev>>

\* lines 135-138
ProvisionResult(c) ==
    [PhysicalResourceId |-> physical_id,
     Data |-> [k \in DOMAIN c |-> Str(c[k])]]

ReturnResult ==
    /\ pc = "apply"
    /\ kind = 5
    /\ returned' = ProvisionResult(counts)
    /\ physIds' = physIds \cup {ProvisionResult(counts).PhysicalResourceId}
    /\ pc' = "done"
    /\ lastResp' = NoResp
    /\ apiRet' = NoRet
    /\ UNCHANGED <<event, secret, topology, auth, kind, idx, counts, calls, raised,
                   broker, invocations, prev, trace>>

----------------------------------------------------------------------------
(* Specifications *)

\* the steps of the handler between its entry and its exit
Run ==
    \/ EntityKeyError
    \/ IssueCall
    \/ \E status \in AppliedStatuses : RespondNormal(status)
    \/ \E status \in AppliedStatuses : RespondAppliedAsError(status)
    \/ \E status \in RefusedStatuses : RespondRefused(status)
    \/ \E applied \in BOOLEAN : RespondTimeout(applied)
    \/ ReturnResult

\* a broker that already holds entities: an exchange whose type differs from the
\* document's, a queue and a policy equal to the document's
SeededBroker ==
    BrokerApply(BrokerApply(BrokerApply(EmptyBroker,
        ExchangeRequest([name |-> NameA, type |-> "direct"])),
        QueueRequest([name |-> NameA, arguments |-> {<<"x-queue-type", "quorum">>}])),
        PolicyRequest([name |-> NameA, pattern |-> ".*",
                       definition |-> {<<"ha-mode", "all">>}]))

InitBrokers == {EmptyBroker, SeededBroker}

Init == \E b \in InitBrokers : InitWith(b) /\ ~trace.recording

\* one invocation, with any event, against either broker
Next ==
    \/ /\ CanEnter(1)
       /\ \E props \in PropsSet, sec \in SecretSet : HandleDelete(props, sec, 1)
    \/ /\ CanEnter(1)
       /\ \E rt \in RequestTypes \ {"Delete"}, props \in PropsSet, sec \in SecretSet :
             BeginProvision(rt, props, sec, 1)
    \/ Run

Spec == Init /\ [][Next]_vars

----------------------------------------------------------------------------
(* Repeated deployments: the handler invoked again and again on one broker *)

FullDoc ==
    [exchanges |-> <<[name |-> NameA, type |-> "topic"]>>,
     queues    |-> <<[name |-> NameB, durable |-> FALSE]>>,
     bindings  |-> <<[source |-> NameA, destination |-> NameB, routing_key |-> "k.*"]>>,
     policies  |-> <<[name |-> NameA, pattern |-> ".*",
                      definition |-> {<<"ha-mode", "all">>}, priority |-> 1]>>]

RedeployDocs ==
    {FullDoc,
     \* the same with the policy's priority left to its default
     [FullDoc EXCEPT !.policies =
         <<[name |-> NameA, pattern |-> ".*", definition |-> {<<"ha-mode", "all">>}]>>],
     \* a later document that keeps only the exchange
     [exchanges |-> FullDoc.exchanges],
     \* the exchange declared with another type
     [exchanges |-> <<[name |-> NameA]>>],
     \* one policy name declared twice, with two priorities
     [policies |-> FullDoc.policies \o
         <<[name |-> NameA, pattern |-> ".*", definition |-> {<<"ha-mode", "all">>}]>>],
     \* a queue without a name after a sound exchange
     [exchanges |-> FullDoc.exchanges, queues |-> <<[durable |-> TRUE]>>]}

RedeployProps == {PropsOf(d) : d \in RedeployDocs}

RedeploySecrets == {[Username |-> "u", Password |-> "p"]}

InitRedeploy == InitWith(EmptyBroker) /\ ~trace.recording

NextRedeploy ==
    \/ /\ CanEnter(MaxInvocations)
       /\ \E props \in RedeployProps, sec \in RedeploySecrets :
             HandleDelete(props, sec, MaxInvocations)
    \/ /\ CanEnter(MaxInvocations)
       /\ \E rt \in RequestTypes \ {"Delete"}, props \in RedeployProps,
             sec \in RedeploySecrets :
             BeginProvision(rt, props, sec, MaxInvocations)
    \/ Run

SpecRedeploy == InitRedeploy /\ [][NextRedeploy]_vars

----------------------------------------------------------------------------
(* Vocabulary of the properties *)

RECURSIVE Tagged(_, _)
Tagged(k, list) == IF list = <<>> THEN <<>> ELSE <<<<k, Head(list)>>>> \o Tagged(k, Tail(list))

\* the entities of a document in apply order, each with the number of its kind
Flatten(doc) ==
    Tagged(1, List(doc, 1)) \o Tagged(2, List(doc, 2))
        \o Tagged(3, List(doc, 3)) \o Tagged(4, List(doc, 4))

Total(c) == c.exchanges + c.queues + c.bindings + c.policies

\* the kind a call addresses, read off its path: 1..4, 0 for none
CallKind(c) ==
    LET segs == Segments(c.path)
    IN  IF Len(segs) > 1 /\ \E k \in 1..4 : segs[2] = <<KindNames[k]>>
        THEN CHOOSE k \in 1..4 : segs[2] = <<KindNames[k]>>
        ELSE 0

\* the i-th call is the request of the i-th entity of the document
CallMatches(i) ==
    LET flat == Flatten(topology)
    IN  /\ i <= Len(flat)
        /\ RequiredKeys(flat[i][1]) \subseteq DOMAIN flat[i][2]
        /\ calls[i] = ApiRequest(flat[i][1], flat[i][2])

Provisioning == event.RequestType \in {"Create", "Update"}

Succeeded == pc = "done" /\ raised = "" /\ returned # Nothing

\* the transport's outcome for the last request, once api() has dealt with it
Answered == pc # "waiting" /\ lastResp.channel \in {"normal", "httperror"}

\* the last request ended in what the handler takes for a failure
CallFailed ==
    /\ pc # "waiting"
    /\ \/ lastResp.channel = "timeout"
       \/ lastResp.channel = "httperror" /\ lastResp.status \notin OkCodes

\* the broker holds the entity call i asked for, and holds it as call i asked
\* for it unless it is a policy that a later call PUT again
OnBroker(i) ==
    LET a == Addressed(calls[i])
        later == {j \in (i + 1)..Len(calls) : Addressed(calls[j]).coll = a.coll
                                               /\ Addressed(calls[j]).name = a.name}
    IN  /\ a.coll # "none"
        /\ \E x \in broker[a.coll] : x.name = a.name
        /\ (a.coll # "policies" \/ later = {}) =>
               [name |-> a.name, cfg |-> a.cfg] \in broker[a.coll]

RECURSIVE ParseInt(_)
\* int(text) of a string of decimal digits
ParseInt(text) ==
    LET value(ch) == CHOOSE d \in 0..9 : Str(d) = <<ch>>
    IN  IF text = <<>> THEN 0
        ELSE 10 * ParseInt(SubSeq(text, 1, Len(text) - 1)) + value(text[Len(text)])

----------------------------------------------------------------------------
(* Properties of one invocation (Spec) *)

\* C1: the calls of an invocation are, in order, the requests of the document's
\* entities taken kind by kind (exchanges, queues, bindings, policies) and, within
\* a kind, in list order: exchanges and queues are PUT, bindings POSTed, policies
\* PUT, and no call of a later kind precedes a call of an earlier kind.
C1_CallsInKindAndListOrder ==
    /\ \A i \in 1..Len(calls) :
          /\ CallMatches(i)
          /\ CallKind(calls[i]) = Flatten(topology)[i][1]
          /\ calls[i].method = IF CallKind(calls[i]) = 3 THEN "POST" ELSE "PUT"
    /\ \A i, j \in 1..Len(calls) : i < j => CallKind(calls[i]) <= CallKind(calls[j])

C1_Witness ==
    /\ pc = "done"
    /\ Len(calls) = 3
    /\ CallKind(calls[1]) = CallKind(calls[2])
    /\ calls[1] # calls[2]
    /\ CallKind(calls[2]) < CallKind(calls[3])

\* C2: when a call fails (a timeout, or an HTTPError whose code is none of 200,
\* 201, 204) the invocation ends with the exception and no result; the failed
\* call is the last call issued, every call before it succeeded and was counted,
\* no call is anything but the PUT or POST of a document entity, and every
\* entity the calls before the failed one asked for is on the broker (as asked
\* for, unless it is a policy PUT again by a later call of the pass).
C2_FailFastNoRollback ==
    CallFailed =>
        /\ pc = "done"
        /\ raised \in {"HTTPError", "URLError"}
        /\ returned = Nothing
        /\ Len(calls) = Total(counts) + 1
        /\ \A i \in 1..Len(calls) : CallMatches(i) /\ calls[i].method \in {"PUT", "POST"}
        /\ \A i \in 1..(Len(calls) - 1) : OnBroker(i)

C2_Witness ==
    /\ CallFailed
    /\ lastResp = [channel |-> "httperror", status |-> 409]
    /\ Len(calls) = 2
    /\ CallKind(calls[2]) = 2
    /\ Len(Flatten(topology)) = 3
    /\ Flatten(topology)[3][1] = 4

\* C5: a status of 200, 201 or 204, delivered as a response or as an HTTPError,
\* makes api() return that status: nothing is raised, the entity is counted and
\* the pass goes on.
C5_OkStatusIsSuccess ==
    (Answered /\ lastResp.status \in OkCodes) =>
        /\ apiRet = [raised |-> FALSE, status |-> lastResp.status]
        /\ raised = ""
        /\ pc = "apply"
        /\ Total(counts) = Len(calls)

C5_Witness ==
    /\ Answered
    /\ lastResp = [channel |-> "httperror", status |-> 204]
    /\ pc = "apply"
    /\ kind <= 4

\* C6 (as claimed): a status outside 200, 201, 204, delivered as a response or as
\* an HTTPError, makes api() fail: the pass aborts and the entity is not counted.
C6_OtherStatusIsFailure ==
    (Answered /\ lastResp.status \notin OkCodes) =>
        /\ apiRet.raised
        /\ pc = "done"
        /\ raised = "HTTPError"
        /\ Total(counts) = Len(calls) - 1

\* a required key is missing from some entity of the document
HasMissingField(doc) ==
    \E k \in 1..4 : \E i \in 1..Len(List(doc, k)) :
        ~(RequiredKeys(k) \subseteq DOMAIN List(doc, k)[i])

\* C8 (as claimed): an invocation whose document has an entity without a
\* required field issues no HTTP call, and ends with an exception.
C8_MissingFieldBeforeAnyCall ==
    (Provisioning /\ topology # Nothing /\ HasMissingField(topology)) =>
        /\ calls = <<>>
        /\ pc = "done" => raised # ""

\* two entities of one kind (exchanges, queues, policies) carry the same name
HasDuplicateName(doc) ==
    \E k \in {1, 2, 4} : \E i, j \in 1..Len(List(doc, k)) :
        /\ i < j
        /\ "name" \in DOMAIN List(doc, k)[i]
        /\ "name" \in DOMAIN List(doc, k)[j]
        /\ List(doc, k)[i].name = List(doc, k)[j].name

\* C9 (as claimed): an invocation whose document declares a name twice in one
\* kind issues no HTTP call and ends with an exception, and no invocation PUTs
\* the same path twice.
C9_DuplicateNameRejected ==
    /\ (Provisioning /\ topology # Nothing /\ HasDuplicateName(topology)) =>
          /\ calls = <<>>
          /\ pc = "done" => raised # ""
    /\ \A i, j \in 1..Len(calls) :
          (i < j /\ calls[i].method = "PUT") => calls[i].path # calls[j].path

\* C10: a Create or Update that returns has issued exactly one call per entity of
\* the document, and its Data gives, for each of the four kinds, the text of the
\* number of entities of that kind (0 for a kind the document leaves out).
C10_CountsMatchDocument ==
    (Provisioning /\ Succeeded) =>
        /\ DOMAIN returned = {"PhysicalResourceId", "Data"}
        /\ DOMAIN returned.Data = {KindNames[k] : k \in 1..4}
        /\ \A k \in 1..4 :
              ParseInt(returned.Data[KindNames[k]]) = Len(List(topology, k))
        /\ Len(calls) = Len(Flatten(topology))
        /\ Len(calls) = ParseInt(returned.Data.exchanges) + ParseInt(returned.Data.queues)
                          + ParseInt(returned.Data.bindings) + ParseInt(returned.Data.policies)
        /\ \A i \in 1..Len(calls) : CallMatches(i)

C10_Witness ==
    /\ Provisioning
    /\ Succeeded
    /\ Len(calls) = 3
    /\ "policies" \notin DOMAIN topology
    /\ returned.Data.exchanges = <<"2">>

----------------------------------------------------------------------------
(* Properties of repeated invocations (SpecRedeploy) *)

\* this invocation is a Create or Update, the one before it was too, and both
\* were given the same Topology text
SameDocAgain ==
    /\ prev.exists
    /\ ~prev.deleted
    /\ Provisioning
    /\ "Topology" \in DOMAIN prev.props
    /\ prev.props.Topology = event.ResourceProperties.Topology

\* every required key is there and no name is declared twice in a kind
WellFormed(doc) == ~HasMissingField(doc) /\ ~HasDuplicateName(doc)

RECURSIVE ApplyAll(_, _)
\* the broker after it has done the requests of these entities, one after another
ApplyAll(flat, b) ==
    IF flat = <<>> THEN b
    ELSE ApplyAll(Tail(flat), BrokerApply(b, Request(Head(flat)[1], Head(flat)[2])))

\* C3: when two successive invocations are successful Create/Update passes of one
\* well-formed document, the second returns the Data of the first and leaves the
\* broker's exchanges, queues, bindings and policies as the first left them.
C3_SecondPassChangesNothing ==
    (SameDocAgain /\ Succeeded /\ prev.raised = "" /\ prev.returned # Nothing
        /\ WellFormed(topology)) =>
        /\ returned.Data = prev.returned.Data
        /\ returned = prev.returned
        /\ broker = prev.brokerNow

C3_Witness ==
    /\ SameDocAgain
    /\ Succeeded
    /\ prev.raised = ""
    /\ prev.returned # Nothing
    /\ WellFormed(topology)
    /\ Len(calls) = 4
    /\ Cardinality(broker.bindings) = 1

\* C4: a Delete issues no call, leaves the broker as it was and returns a dict
\* holding PhysicalResourceId alone; that identity is the one every successful
\* Create or Update returned before it and returns after it.
C4_DeleteIsNoOpWithSameIdentity ==
    /\ (event.RequestType = "Delete" /\ pc = "done") =>
          /\ calls = <<>>
          /\ raised = ""
          /\ broker = prev.brokerNow
          /\ DOMAIN returned = {"PhysicalResourceId"}
          /\ \A id \in physIds : id = returned.PhysicalResourceId
    /\ (Provisioning /\ Succeeded /\ prev.exists /\ prev.deleted) =>
          returned.PhysicalResourceId = prev.returned.PhysicalResourceId

C4_Witness ==
    /\ event.RequestType = "Delete"
    /\ pc = "done"
    /\ physIds # {}
    /\ broker # EmptyBroker

\* the pass before this one aborted at a call, and this pass, on the same
\* document, has seen no failure
Resuming ==
    /\ SameDocAgain
    /\ prev.raised \in {"HTTPError", "URLError"}
    /\ raised = ""

\* the calls of the aborted pass are the first calls of this one
C7_Reissued ==
    (Resuming /\ Succeeded) =>
        /\ Len(prev.calls) <= Len(calls)
        /\ \A i \in 1..Len(prev.calls) : calls[i] = prev.calls[i]

\* the broker ends as one pass without failure would have left it
C7_SameAsOnePass ==
    (Resuming /\ Succeeded) =>
        broker = ApplyAll(Flatten(topology), prev.brokerStart)

\* the calls for the entities applied before the failure change nothing
C7_ReissueIsNoOp ==
    (Resuming /\ Total(counts) < Len(prev.calls)) => broker = prev.brokerNow

\* C7 (as claimed): after a pass that aborted at a call, a pass on the same
\* document whose calls all succeed re-issues the calls of the aborted pass, changes
\* nothing on the broker with the calls for the entities applied before the
\* failure, and leaves the broker as one pass without failure from the first
\* pass's starting state would have.
C7_ResumeAfterFailure == C7_Reissued /\ C7_SameAsOnePass /\ C7_ReissueIsNoOp

\* the policies of a document that carry this name
PoliciesNamed(doc, n) ==
    {List(doc, 4)[i] : i \in {j \in 1..Len(List(doc, 4)) :
        /\ RequiredKeys(4) \subseteq DOMAIN List(doc, 4)[j]
        /\ List(doc, 4)[j].name = n}}

\* the calls of this invocation that PUT the policy of this name
PolicyPuts(n) ==
    {i \in 1..Len(calls) : /\ Addressed(calls[i]).coll = "policies"
                           /\ Addressed(calls[i]).name = n}

\* the document of the invocation before this one
PrevDoc == prev.props.Topology.value

\* the priority and the definition a policy declares
Declared(p) == <<Get(p, "priority", 0), p.definition>>

\* the pass before this one applied a document holding policy n, and this pass
\* has applied a document that holds n once, with another priority or definition
PolicyChanged(n) ==
    /\ prev.exists
    /\ ~prev.deleted
    /\ prev.raised = ""
    /\ prev.returned # Nothing
    /\ Provisioning
    /\ Succeeded
    /\ Cardinality(PoliciesNamed(topology, n)) = 1
    /\ \E p1 \in PoliciesNamed(PrevDoc, n), p2 \in PoliciesNamed(topology, n) :
          Declared(p1) # Declared(p2)

\* the broker holds one policy of this name, with the pattern, definition,
\* apply-to and priority the document gives it
HeldAsDeclared(n) ==
    /\ Cardinality({x \in broker.policies : x.name = n}) = 1
    /\ \A x \in broker.policies : x.name = n =>
          \A p \in PoliciesNamed(topology, n) :
              /\ x.cfg["pattern"] = p.pattern
              /\ x.cfg["definition"] = p.definition
              /\ x.cfg["apply-to"] = Get(p, "apply_to", "queues")
              /\ x.cfg["priority"] = Get(p, "priority", 0)

\* C11: when a pass applied a document holding policy P and the next pass applies
\* a document holding P (once) with another priority or definition, the second
\* pass issues exactly one PUT for P, raises nothing, and leaves on the broker
\* exactly one policy named P with the second document's pattern, definition,
\* apply-to and priority.
C11_PolicyLastWriteWins ==
    \A n \in {NameA, NameB} :
        PolicyChanged(n) =>
            /\ Cardinality(PolicyPuts(n)) = 1
            /\ raised = ""
            /\ HeldAsDeclared(n)

C11_Witness ==
    /\ PolicyChanged(NameA)
    /\ \E x \in prev.brokerNow.policies : x.name = NameA /\ x.cfg["priority"] = 1
    /\ \E x \in broker.policies : x.name = NameA /\ x.cfg["priority"] = 0

\* every request of this invocation is a PUT or a POST
OnlyPutAndPost == \A i \in 1..Len(calls) : calls[i].method \in {"PUT", "POST"}

\* a step takes no exchange, queue or binding off the broker
NothingRemoved ==
    \A c \in {"exchanges", "queues", "bindings"} : broker[c] \subseteq broker'[c]

\* C12: over any sequence of Create, Update and Delete invocations the handler
\* issues PUT and POST requests only, and no step of an invocation removes an
\* exchange, a queue or a binding from the broker, also when the document leaves
\* out an entity an earlier document declared.
C12_NeverDeletes == []OnlyPutAndPost /\ [][NothingRemoved]_vars

\* a pass of the exchange-only document has succeeded after a pass that declared
\* a queue and a binding, and the broker still holds them
C12_Witness ==
    /\ prev.exists
    /\ ~prev.deleted
    /\ prev.returned # Nothing
    /\ List(PrevDoc, 2) # <<>>
    /\ List(PrevDoc, 3) # <<>>
    /\ Provisioning
    /\ Succeeded
    /\ DOMAIN topology = {"exchanges"}
    /\ calls # <<>>
    /\ broker.queues # {}
    /\ broker.bindings # {}

----------------------------------------------------------------------------
(* Properties of the calls of one invocation (Spec) *)

\* the requests of this invocation that have ended: those api() returned a
\* status for (each counted once) and the one api() raised for
Ended == Total(counts) + (IF apiRet.raised THEN 1 ELSE 0)

\* the requests handed to urlopen that have not ended
Outstanding == Len(calls) - Ended

\* a step that issues a request issues one, and while none is outstanding
IssuesWhenIdle ==
    Len(calls') > Len(calls) => (Outstanding = 0 /\ Len(calls') = Len(calls) + 1)

\* C13: within one invocation at most one request is outstanding, it is
\* outstanding exactly while api() waits in urlopen, and the next request is
\* issued only once the one before it has ended in a response, an error or a
\* timeout.
C13_OneCallAtATime ==
    /\ [](Outstanding \in {0, 1} /\ (Outstanding = 1 <=> pc = "waiting"))
    /\ [][IssuesWhenIdle]_vars

\* the third request is outstanding after two that ended
C13_Witness ==
    /\ pc = "waiting"
    /\ Len(calls) = 3
    /\ Ended = 2
    /\ Outstanding = 1

\* the last request got no answer within the timeout
TimedOut == lastResp.channel = "timeout"

\* the invocation has ended with the transport's exception, at the request that
\* timed out, and has returned nothing
FailedAtTimeout ==
    /\ pc = "done"
    /\ apiRet.raised
    /\ raised = "URLError"
    /\ returned = Nothing
    /\ Len(calls) = Total(counts) + 1
    /\ CallMatches(Len(calls))

\* after the timeout the invocation does nothing more: the only step left is the
\* entry of another invocation
NothingAfterTimeout ==
    TimedOut => (invocations' = invocations + 1 /\ calls' = <<>>)

\* C14: a request that gets no answer within the timeout ends the invocation as
\* a network failure does: the exception leaves on_event, no result is returned,
\* the timed-out request is the last one the invocation issues (it is not issued
\* again and no later entity is requested).
C14_TimeoutFailsInvocation ==
    /\ [](TimedOut => FailedAtTimeout)
    /\ [][NothingAfterTimeout]_vars

\* the second of four requests timed out
C14_Witness ==
    /\ TimedOut
    /\ FailedAtTimeout
    /\ Len(calls) = 2
    /\ Len(Flatten(topology)) = 4

----------------------------------------------------------------------------
(* Secret payloads: one invocation against every shape of SecretString *)

SecretKeys == {"username", "Username", "password", "Password"}

\* the values a key of the payload may hold, the empty string among them
SecretValues == {"", "u", "v"}

\* every payload with some of the four keys, each with any of the values
SecretPayloads == UNION {[ks -> SecretValues] : ks \in SUBSET SecretKeys}

\* a sound document, a document that is no JSON, and no properties at all
SecretsProps ==
    {PropsOf(FullDoc),
     PropsOf([exchanges |-> FullDoc.exchanges, queues |-> <<[durable |-> TRUE]>>]),
     [SecretArn |-> "arn:secret", BrokerHost |-> "mq.example", Topology |-> NotJson],
     BareProps}

InitSecrets == InitWith(EmptyBroker) /\ ~trace.recording

NextSecrets ==
    \/ /\ CanEnter(1)
       /\ \E props \in SecretsProps, sec \in SecretPayloads : HandleDelete(props, sec, 1)
    \/ /\ CanEnter(1)
       /\ \E rt \in RequestTypes \ {"Delete"}, props \in SecretsProps,
             sec \in SecretPayloads :
             BeginProvision(rt, props, sec, 1)
    \/ Run

SpecSecrets == InitSecrets /\ [][NextSecrets]_vars

\* a Create or Update has gone past the reading of its properties and the
\* parsing of its Topology text
ReachedSecret ==
    /\ Provisioning
    /\ {"SecretArn", "BrokerHost", "Topology"} \subseteq DOMAIN event.ResourceProperties
    /\ event.ResourceProperties.Topology.text = "json"

\* the payload has the key in one of its two spellings
Present(lower, upper) == lower \in DOMAIN secret \/ upper \in DOMAIN secret

\* the payload has the key, with a value that is not empty, in one of its spellings
PresentNonEmpty(lower, upper) ==
    \/ lower \in DOMAIN secret /\ secret[lower] # ""
    \/ upper \in DOMAIN secret /\ secret[upper] # ""

\* the value the payload gives: the lower-case spelling's unless it is absent or empty
Picked(lower, upper) ==
    IF lower \in DOMAIN secret /\ secret[lower] # "" THEN secret[lower] ELSE secret[upper]

\* the invocation ended with the credential error before any request
CredentialFailure ==
    /\ pc = "done"
    /\ raised = "ValueError"
    /\ returned = Nothing
    /\ calls = <<>>

\* the invocation went on to the loops, and its requests carry these credentials
ProceededWith(username, password) ==
    /\ raised # "ValueError"
    /\ topology # Nothing
    /\ auth = <<username, password>>
    /\ \A i \in 1..Len(calls) : calls[i].auth = <<username, password>>

\* C15 (as claimed): a Create or Update whose secret payload has neither username
\* nor Username, or neither password nor Password, fails with the credential
\* error before any request; one whose payload has a spelling of each goes on to
\* the apply pass.
C15_CredentialsByPresence ==
    ReachedSecret =>
        IF Present("username", "Username") /\ Present("password", "Password")
        THEN raised # "ValueError" /\ topology # Nothing
        ELSE CredentialFailure

\* C15 (amended): a Create or Update whose properties were read and whose Topology
\* text parsed fails with the credential error before any request when its secret
\* payload has no non-empty username/Username or no non-empty password/Password,
\* and otherwise goes on to the apply pass with the non-empty values, the
\* lower-case spelling's first.
C15_CredentialsByNonEmptyValue ==
    ReachedSecret =>
        IF PresentNonEmpty("username", "Username") /\ PresentNonEmpty("password", "Password")
        THEN ProceededWith(Picked("username", "Username"), Picked("password", "Password"))
        ELSE CredentialFailure

\* a payload in mixed spellings, its request waiting for the broker
C15_Witness ==
    /\ ReachedSecret
    /\ secret = [username |-> "u", Password |-> "v"]
    /\ pc = "waiting"
    /\ Last(calls).auth = <<"u", "v">>

----------------------------------------------------------------------------
(* Entity names: one invocation for every name the paths may have to carry *)

\* a letter, the separator, a space, a non-ASCII letter and the escape character
NameChars == {"a", "/", " ", "é", "%"}

\* the names of at most MaxNameLen characters
Names == UNION {[1..n -> NameChars] : n \in 0..MaxNameLen}

\* documents of one entity, of every kind and with every name, and a document
\* whose queue has no name
NameDocs ==
    {[exchanges |-> <<[name |-> n]>>] : n \in Names}
    \cup {[queues |-> <<[name |-> n]>>] : n \in Names}
    \cup {[bindings |-> <<[source |-> s, destination |-> d]>>] : s \in Names, d \in Names}
    \cup {[policies |-> <<[name |-> n, pattern |-> ".*", definition |-> {}]>>] : n \in Names}
    \cup {[exchanges |-> <<[name |-> NameB]>>, queues |-> <<[durable |-> TRUE]>>]}

NameProps == {PropsOf(d) : d \in NameDocs}

InitNames == InitWith(EmptyBroker) /\ ~trace.recording

NextNames ==
    \/ /\ CanEnter(1)
       /\ \E props \in NameProps, sec \in RedeploySecrets : HandleDelete(props, sec, 1)
    \/ /\ CanEnter(1)
       /\ \E rt \in RequestTypes \ {"Delete"}, props \in NameProps,
             sec \in RedeploySecrets :
             BeginProvision(rt, props, sec, 1)
    \/ Run

SpecNames == InitNames /\ [][NextNames]_vars

\* the number of segments path.split("/") gives for a path of this kind (the
\* first is the empty one before the leading "/")
SegmentsOfKind(k) == IF k = 3 THEN 7 ELSE 4

\* the names of an entity, in the order its path carries them
NamesOf(k, e) == IF k = 3 THEN <<e.source, e.destination>> ELSE <<e.name>>

\* the segments of a path that carry names
NameSegments(k, segs) == IF k = 3 THEN <<segs[5], segs[7]>> ELSE <<segs[4]>>

\* the path of call i has the segments of its kind, the fixed "%2F" as its
\* virtual host, and each name of its entity in one segment, from which
\* percent-decoding gives the name back
PathWellFormed(i) ==
    LET k    == Flatten(topology)[i][1]
        e    == Flatten(topology)[i][2]
        segs == Segments(calls[i].path)
    IN  /\ Len(segs) = SegmentsOfKind(k)
        /\ segs[1] = <<>>
        /\ segs[2] = <<KindNames[k]>>
        /\ segs[3] = <<"%2F">>
        /\ \A j \in 1..Len(NamesOf(k, e)) :
              /\ "/" \notin {NameSegments(k, segs)[j][t] : t \in 1..Len(NameSegments(k, segs)[j])}
              /\ Unquote(NameSegments(k, segs)[j]) = NamesOf(k, e)[j]

\* C16: in the path of every request each entity name is percent-encoded with no
\* "/" left in it, so that a name with "/", a space or a non-ASCII character
\* fills exactly one segment and the number of segments depends on the kind
\* alone; the virtual-host segment is the fixed "%2F", not encoded again.
C16_NamesFillOneSegment == \A i \in 1..Len(calls) : PathWellFormed(i)

\* a binding between a source with "/" and a space and a destination with a
\* non-ASCII character and "/" has been requested
C16_Witness ==
    /\ pc = "waiting"
    /\ Len(calls) = 1
    /\ CallKind(calls[1]) = 3
    /\ topology.bindings[1].source = <<"/", " ">>
    /\ topology.bindings[1].destination = <<"é", "/">>
    /\ calls[1].path = <<"/", "bindings", "/", "%2F", "/", "e", "/", "%2F", "%20",
                         "/", "q", "/", "%C3", "%A9", "%2F">>

----------------------------------------------------------------------------
(* Optional fields: one invocation for every way of leaving them out *)

\* the dict d with d[key] = v
Put(d, key, v) == [x \in DOMAIN d \cup {key} |-> IF x = key THEN v ELSE d[x]]

\* the dicts of s, and each of them with the key set to each of the values
Extend(s, key, values) == s \cup {Put(d, key, v) : d \in s, v \in values}

ArgumentValues == {{}, {<<"x-queue-type", "quorum">>}}

ExchangeFieldCands ==
    Extend(Extend(Extend(Extend({[name |-> NameA]},
        "type", {"direct", "topic"}), "durable", BOOLEAN), "auto_delete", BOOLEAN),
        "arguments", ArgumentValues)

QueueFieldCands ==
    Extend(Extend(Extend({[name |-> NameA]},
        "durable", BOOLEAN), "auto_delete", BOOLEAN), "arguments", ArgumentValues)

BindingFieldCands ==
    Extend(Extend({[source |-> NameA, destination |-> NameB]},
        "routing_key", {"", "k.*"}), "arguments", ArgumentValues)

PolicyFieldCands ==
    Extend(Extend({[name |-> NameA, pattern |-> ".*", definition |-> {<<"ha-mode", "all">>}]},
        "apply_to", {"queues", "all"}), "priority", {0, 7})

\* documents of one entity, and a document whose queue has no name
FieldDocs ==
    {[exchanges |-> <<e>>] : e \in ExchangeFieldCands}
    \cup {[queues |-> <<e>>] : e \in QueueFieldCands}
    \cup {[bindings |-> <<e>>] : e \in BindingFieldCands}
    \cup {[policies |-> <<e>>] : e \in PolicyFieldCands}
    \cup {[exchanges |-> <<[name |-> NameB]>>, queues |-> <<[durable |-> TRUE]>>]}

FieldProps == {PropsOf(d) : d \in FieldDocs}

InitFields == InitWith(EmptyBroker) /\ ~trace.recording

NextFields ==
    \/ /\ CanEnter(1)
       /\ \E props \in FieldProps, sec \in RedeploySecrets : HandleDelete(props, sec, 1)
    \/ /\ CanEnter(1)
       /\ \E rt \in RequestTypes \ {"Delete"}, props \in FieldProps,
             sec \in RedeploySecrets :
             BeginProvision(rt, props, sec, 1)
    \/ Run

SpecFields == InitFields /\ [][NextFields]_vars

\* the keys of a body that come from optional fields of the entity
OptionalBodyKeys(k) ==
    CASE k = 1 -> {"type", "durable", "auto_delete", "arguments"}
      [] k = 2 -> {"durable", "auto_delete", "arguments"}
      [] k = 3 -> {"routing_key", "arguments"}
      [] k = 4 -> {"apply-to", "priority"}

\* the key of the document a key of the body is read from
DocKey(f) == IF f = "apply-to" THEN "apply_to" ELSE f

\* the stated defaults
DefaultOf(f) ==
    CASE f = "type"        -> "direct"
      [] f = "durable"     -> TRUE
      [] f = "auto_delete" -> FALSE
      [] f = "arguments"   -> {}
      [] f = "routing_key" -> ""
      [] f = "apply-to"    -> "queues"
      [] f = "priority"    -> 0

\* the body of call i has, for each optional field, the document's value when
\* the entity has the field and the default when it has not
BodyAsDeclared(i) ==
    LET k == Flatten(topology)[i][1]
        e == Flatten(topology)[i][2]
    IN  /\ OptionalBodyKeys(k) \subseteq DOMAIN calls[i].body
        /\ \A f \in OptionalBodyKeys(k) :
              calls[i].body[f] = IF DocKey(f) \in DOMAIN e THEN e[DocKey(f)] ELSE DefaultOf(f)

\* the entity the pass stopped at with a KeyError lacks a required key
KeyErrorIsRequiredKey ==
    (pc = "done" /\ raised = "KeyError" /\ topology # Nothing) =>
        /\ Len(calls) < Len(Flatten(topology))
        /\ LET at == Flatten(topology)[Len(calls) + 1]
           IN  ~(RequiredKeys(at[1]) \subseteq DOMAIN at[2])

\* C17: the body of every request carries, for each optional field of its entity,
\* the document's value when the field is present and the default when it is
\* absent (type direct, durable true, auto_delete false, arguments empty,
\* routing_key empty, apply-to queues, priority 0); no pass fails at an entity
\* for an absent optional field.
C17_DefaultsForAbsentFields ==
    /\ \A i \in 1..Len(calls) : BodyAsDeclared(i)
    /\ KeyErrorIsRequiredKey

\* a policy that states its apply_to and leaves out its priority has been PUT
C17_Witness ==
    /\ pc = "waiting"
    /\ Len(calls) = 1
    /\ topology = [policies |-> <<[name |-> NameA, pattern |-> ".*",
                                   definition |-> {<<"ha-mode", "all">>},
                                   apply_to |-> "all"]>>]
    /\ calls[1].body["apply-to"] = "all"
    /\ calls[1].body["priority"] = 0

----------------------------------------------------------------------------
(* The counters of a pass (Spec) *)

\* the number of requests api() has returned a status for: all the requests of
\* the pass but the one still waiting or the one api() raised for
ReturnedCalls == Len(calls) - (IF pc = "waiting" \/ apiRet.raised THEN 1 ELSE 0)

\* how many of them were requests of kind k
ReturnedOfKind(k) == Cardinality({i \in 1..ReturnedCalls : CallKind(calls[i]) = k})

\* each counter is the number of requests of its kind api() has returned for
CountersMatchReturns == \A k \in 1..4 : counts[KindNames[k]] = ReturnedOfKind(k)

\* a counter is 0 while an entity of an earlier kind has no returned request
LaterKindsWait ==
    topology # Nothing =>
        \A k \in 1..4 :
            (\E j \in 1..(k - 1) : counts[KindNames[j]] < Len(List(topology, j)))
                => counts[KindNames[k]] = 0

\* a result with Data means a returned request for every entity of the document
DataMeansAllApplied ==
    (returned # Nothing /\ "Data" \in DOMAIN returned) =>
        /\ ReturnedCalls = Len(Flatten(topology))
        /\ \A k \in 1..4 : counts[KindNames[k]] = Len(List(topology, k))
        /\ \A i \in 1..Len(calls) : CallMatches(i)

\* a step changes the counters only when api() returns a status for the waiting
\* request, and then adds one to the counter of that request's kind
CountedOnReturn ==
    (counts' # counts /\ invocations' = invocations) =>
        /\ pc = "waiting"
        /\ calls' = calls
        /\ lastResp'.channel \in {"normal", "httperror"}
        /\ apiRet' = [raised |-> FALSE, status |-> lastResp'.status]
        /\ \A k \in 1..4 :
              counts'[KindNames[k]] =
                  counts[KindNames[k]] + (IF k = CallKind(Last(calls)) THEN 1 ELSE 0)

\* C18: at every point of a pass each per-kind counter is the number of requests
\* of that kind api() has returned a status for so far; a counter moves only
\* when the waiting request returns, by one; the counter of a kind is 0 while an
\* entity of an earlier kind has no returned request; and a result with Data is
\* returned only when every entity of the document has had one.
C18_CountersFollowReturns ==
    /\ [](CountersMatchReturns /\ LaterKindsWait /\ DataMeansAllApplied)
    /\ [][CountedOnReturn]_vars

\* mid-pass: two exchanges counted, the queue's request waiting
C18_Witness ==
    /\ pc = "waiting"
    /\ counts = [exchanges |-> 2, queues |-> 0, bindings |-> 0, policies |-> 0]
    /\ Len(calls) = 3
    /\ CallKind(calls[3]) = 2

----------------------------------------------------------------------------
(* Delete and the properties it is given (Spec) *)

\* a Delete has ended
Deleted == event.RequestType = "Delete" /\ pc = "done"

\* the properties or the secret are such that a Create or Update would stop
\* before its loops
Unusable == SetupError(event.ResourceProperties, secret) # ""

\* C19: a Delete returns its result with no exception whatever its SecretArn,
\* BrokerHost and Topology are (absent, or a Topology text that is no JSON) and
\* whatever the secret holds (no credentials): it has parsed no topology, taken
\* no credentials and issued no request.
C19_DeleteNeedsNoProperties ==
    Deleted =>
        /\ raised = ""
        /\ returned = [PhysicalResourceId |-> "rabbitmq-topology-v1"]
        /\ topology = Nothing
        /\ auth = <<"", "">>
        /\ calls = <<>>
        /\ counts = ZeroCounts

\* a Delete has ended that was given none of the three properties and a secret
\* without a password
C19_Witness ==
    /\ Deleted
    /\ Unusable
    /\ DOMAIN event.ResourceProperties = {"Region"}
    /\ secret = [username |-> "u"]
    /\ returned # Nothing

----------------------------------------------------------------------------
(* Create and Update side by side: two invocations whose answers are recorded *)

\* a document of two kinds, a document whose queue has no name
PairDocs ==
    {[exchanges |-> <<[name |-> NameA, type |-> "topic"]>>,
      policies  |-> <<[name |-> NameB, pattern |-> "^q", definition |-> {}]>>],
     [exchanges |-> <<[name |-> NameB]>>, queues |-> <<[durable |-> TRUE]>>]}

PairProps ==
    {PropsOf(d) : d \in PairDocs}
    \cup {[SecretArn |-> "arn:secret", BrokerHost |-> "mq.example", Topology |-> NotJson]}

PairSecrets == {[Username |-> "u", Password |-> "p"], [username |-> "u"]}

InitPair == InitWith(EmptyBroker) /\ trace.recording

NextPair ==
    \/ /\ CanEnter(MaxInvocations)
       /\ \E rt \in RequestTypes \ {"Delete"}, props \in PairProps, sec \in PairSecrets :
             BeginProvision(rt, props, sec, MaxInvocations)
    \/ Run

SpecPair == InitPair /\ [][NextPair]_vars

RECURSIVE IsPrefix(_, _)
IsPrefix(s, t) ==
    \/ s = <<>>
    \/ /\ t # <<>>
       /\ Head(s) = Head(t)
       /\ IsPrefix(Tail(s), Tail(t))

\* this invocation and the one before it are a Create and an Update, in either
\* order, of the same ResourceProperties with the same secret payload
CreateAndUpdate ==
    /\ prev.exists
    /\ {event.RequestType, trace.first.RequestType} = {"Create", "Update"}
    /\ prev.props = event.ResourceProperties
    /\ trace.first.secret = secret

\* C20: a Create and an Update with the same ResourceProperties and the same
\* secret payload that get the same answers from the broker issue the same
\* requests, with the same bodies, in the same order, and end with the same result
\* or the same exception; as long as the answers of the second are the first
\* answers of the first, its requests are the first requests of the first.
C20_UpdateBehavesAsCreate ==
    CreateAndUpdate =>
        /\ IsPrefix(trace.responses, trace.first.responses) => IsPrefix(calls, prev.calls)
        /\ (pc = "done" /\ trace.responses = trace.first.responses) =>
              /\ calls = prev.calls
              /\ returned = prev.returned
              /\ raised = prev.raised

\* an Update after a Create, both answered 201 and then 204 through the error
\* channel, both returning their Data
C20_Witness ==
    /\ CreateAndUpdate
    /\ event.RequestType = "Update"
    /\ pc = "done"
    /\ trace.responses = <<[channel |-> "normal", status |-> 201],
                           [channel |-> "httperror", status |-> 204]>>
    /\ trace.first.responses = trace.responses
    /\ Len(calls) = 2
    /\ returned # Nothing
    /\ "Data" \in DOMAIN returned

====
